---- MODULE Spec2Model ----
(***************************************************************************)
(* Model of the Internet Service Manager CLI: the customers, plans and     *)
(* subscriptions tables, the handlers of lib/helpers that the menus call,  *)
(* and the System Tools reseed of lib/cli.py.                              *)
(*                                                                         *)
(* Text typed at a prompt is a sequence of one-character strings.  A date  *)
(* is the integer yyyymmdd, which orders like the ISO text SQLite stores.  *)
(***************************************************************************)
EXTENDS Integers, Sequences, FiniteSets, TLC

VARIABLES today, customers, plans, subscriptions, sqlite_sequence, out

vars == <<today, customers, plans, subscriptions, sqlite_sequence, out>>

store == <<customers, plans, subscriptions, sqlite_sequence>>

\* ------------------------------------------------------------------ bounds

\* customers.id never exceeds MaxCustomers in the model
MaxCustomers == 2

\* plans.id never exceeds MaxPlans in the model
MaxPlans == 3

\* the longest duration typed at "Duration (months)"
MaxDuration == 2

\* the largest number typed at an "Extend ... by how many months?" prompt
MaxExtend == 2

\* no end date is pushed more than this many months past the current month
MaxAhead == 3

\* ------------------------------------------------------------------ values

None == 0

Digits == {"0", "1", "2", "3", "4", "5", "6", "7", "8", "9"}

DigitVal(c) ==
  CASE c = "0" -> 0 [] c = "1" -> 1 [] c = "2" -> 2 [] c = "3" -> 3
    [] c = "4" -> 4 [] c = "5" -> 5 [] c = "6" -> 6 [] c = "7" -> 7
    [] c = "8" -> 8 [] c = "9" -> 9

\* str.isdigit(): non-empty and every character a digit
isdigit(s) == Len(s) > 0 /\ \A i \in 1..Len(s) : s[i] \in Digits

RECURSIVE int(_)
\* int(s) of a digit string: leading zeros vanish
int(s) == IF Len(s) = 0 THEN 0
          ELSE int(SubSeq(s, 1, Len(s) - 1)) * 10 + DigitVal(s[Len(s)])

\* ------------------------------------------------------------------- dates

MkDate(y, m, d) == y * 10000 + m * 100 + d
YearOf(d) == d \div 10000
MonthOf(d) == (d \div 100) % 100
DayOf(d) == d % 100

isleap(y) == y % 4 = 0 /\ (y % 100 # 0 \/ y % 400 = 0)

\* calendar.monthrange(y, m)[1]
monthrange(y, m) ==
  IF m = 2 THEN (IF isleap(y) THEN 29 ELSE 28)
  ELSE IF m \in {4, 6, 9, 11} THEN 30 ELSE 31

Min(a, b) == IF a <= b THEN a ELSE b

RECURSIVE timedelta_days(_, _)
\* d + timedelta(days=k), k >= 0, one calendar day at a time
timedelta_days(d, k) ==
  IF k = 0 THEN d
  ELSE LET y == YearOf(d)
           m == MonthOf(d)
           next == IF DayOf(d) < monthrange(y, m) THEN d + 1
                   ELSE IF m < 12 THEN MkDate(y, m + 1, 1)
                   ELSE MkDate(y + 1, 1, 1)
       IN timedelta_days(next, k - 1)

\* the months of the calendar up to and including that of a date
MonthCount(d) == YearOf(d) * 12 + MonthOf(d)

\* the first day of the month after that of d
NextMonth(d) ==
  IF MonthOf(d) < 12 THEN MkDate(YearOf(d), MonthOf(d) + 1, 1)
  ELSE MkDate(YearOf(d) + 1, 1, 1)

\* d + timedelta(days=30): past the end of the month of d, and of the next
\* when that is a February
Plus30(d) ==
  LET left == DayOf(d) + 30 - monthrange(YearOf(d), MonthOf(d))
      n1 == NextMonth(d)
      len1 == monthrange(YearOf(n1), MonthOf(n1))
  IN IF left <= 0 THEN d + 30
     ELSE IF left <= len1 THEN n1 + (left - 1)
     ELSE NextMonth(n1) + (left - len1 - 1)

RECURSIVE relativedelta_months_30(_, _)
\* a month taken as a fixed 30 days
relativedelta_months_30(d, n) ==
  IF n = 0 THEN d ELSE relativedelta_months_30(Plus30(d), n - 1)

\* the months subtracted instead of added
relativedelta_months_back(d, n) ==
  LET count == MonthCount(d) - 1 - n
      y == count \div 12
      m == (count % 12) + 1
  IN MkDate(y, m, Min(monthrange(y, m), DayOf(d)))

\* d + relativedelta(months=n), n >= 0: relativedelta keeps years = n div 12
\* and months = n mod 12, adds both, carries a month past December into the
\* year, and clamps the day to the length of the month it lands in.
relativedelta_months(d, n) ==
  LET years == n \div 12
      months == n % 12
      m0 == MonthOf(d) + months
      y == YearOf(d) + years + (IF m0 > 12 THEN 1 ELSE 0)
      m == IF m0 > 12 THEN m0 - 12 ELSE m0
  IN MkDate(y, m, Min(monthrange(y, m), DayOf(d)))

\* a span of days that leaves out its last day
relativedelta_days_short(d, k) == timedelta_days(d, k - 1)

\* d + relativedelta(days=k)
relativedelta_days(d, k) == timedelta_days(d, k)

\* ------------------------------------------------------------------- text

\* str.lower() of one character
lower(c) ==
  CASE c = "A" -> "a" [] c = "B" -> "b" [] c = "C" -> "c" [] c = "D" -> "d"
    [] c = "E" -> "e" [] c = "F" -> "f" [] c = "G" -> "g" [] c = "H" -> "h"
    [] c = "I" -> "i" [] c = "J" -> "j" [] c = "K" -> "k" [] c = "L" -> "l"
    [] c = "M" -> "m" [] c = "N" -> "n" [] c = "O" -> "o" [] c = "P" -> "p"
    [] c = "Q" -> "q" [] c = "R" -> "r" [] c = "S" -> "s" [] c = "T" -> "t"
    [] c = "U" -> "u" [] c = "V" -> "v" [] c = "W" -> "w" [] c = "X" -> "x"
    [] c = "Y" -> "y" [] c = "Z" -> "z"
    [] OTHER -> c

\* str.upper() of one character
upper(c) ==
  CASE c = "a" -> "A" [] c = "b" -> "B" [] c = "c" -> "C" [] c = "d" -> "D"
    [] c = "e" -> "E" [] c = "f" -> "F" [] c = "g" -> "G" [] c = "h" -> "H"
    [] c = "i" -> "I" [] c = "j" -> "J" [] c = "k" -> "K" [] c = "l" -> "L"
    [] c = "m" -> "M" [] c = "n" -> "N" [] c = "o" -> "O" [] c = "p" -> "P"
    [] c = "q" -> "Q" [] c = "r" -> "R" [] c = "s" -> "S" [] c = "t" -> "T"
    [] c = "u" -> "U" [] c = "v" -> "V" [] c = "w" -> "W" [] c = "x" -> "X"
    [] c = "y" -> "Y" [] c = "z" -> "Z"
    [] OTHER -> c

isalpha(c) == lower(c) # c \/ upper(c) # c

Lower(s) == [i \in 1..Len(s) |-> lower(s[i])]

\* str.title(): a letter after a non-letter is upper-cased, any other lower-cased
Title(s) ==
  [i \in 1..Len(s) |->
     IF i = 1 \/ ~isalpha(s[i - 1]) THEN upper(s[i]) ELSE lower(s[i])]

\* str.strip(): without the white space at both ends
RECURSIVE strip(_)
strip(s) ==
  IF Len(s) = 0 THEN s
  ELSE IF Head(s) = " " THEN strip(Tail(s))
  ELSE IF s[Len(s)] = " " THEN strip(SubSeq(s, 1, Len(s) - 1))
  ELSE s

Contains(s, c) == \E i \in 1..Len(s) : s[i] = c

\* the characters of s that are in keep, in order
RECURSIVE Filter(_, _)
Filter(s, keep) ==
  IF Len(s) = 0 THEN <<>>
  ELSE (IF Head(s) \in keep THEN <<Head(s)>> ELSE <<>>) \o Filter(Tail(s), keep)

\* --------------------------------------------------------------- customers

\* a validator that stops at its first error
validate_customer_data_fail_fast(name, email, router_id) ==
  IF Len(name) = 0 THEN <<"Name is required">>
  ELSE IF Len(email) = 0 \/ ~Contains(email, "@")
  THEN <<"Valid email is required">>
  ELSE IF ~isdigit(router_id) \/ Len(router_id) # 10
  THEN <<"Router ID must be 10 digits">>
  ELSE <<>>

validate_customer_data(name, email, router_id) ==
  (IF Len(name) = 0 THEN <<"Name is required">> ELSE <<>>)
  \o (IF Len(email) = 0 \/ ~Contains(email, "@")
      THEN <<"Valid email is required">> ELSE <<>>)
  \o (IF ~isdigit(router_id) \/ Len(router_id) # 10
      THEN <<"Router ID must be 10 digits">> ELSE <<>>)

\* re.match(r'^[^@]+@[^@]+\.[^@]+$', email): one "@", text before it, and
\* after it a "." with text on both sides
email_matches(email) ==
  \E a \in 1..Len(email) :
    /\ email[a] = "@"
    /\ a > 1
    /\ \A i \in 1..Len(email) : email[i] = "@" => i = a
    /\ \E dot \in (a + 2)..(Len(email) - 1) : email[dot] = "."

\* Customer.validate_email: "raise" or the stored value
validate_email(email) ==
  IF ~email_matches(email) THEN "InvalidEmailError" ELSE "ok"

\* a validator that returns the email as it was typed
validate_email_value_as_typed(email) == email

\* Customer.validate_email: email.lower().strip()
validate_email_value(email) == strip(Lower(email))

\* re.match(r'^\+2547[0-247-9]\d{7}$', cleaned)
phone_matches(cleaned) ==
  /\ Len(cleaned) = 13
  /\ SubSeq(cleaned, 1, 5) = <<"+", "2", "5", "4", "7">>
  /\ cleaned[6] \in Digits \ {"3", "5", "6"}
  /\ \A i \in 7..13 : cleaned[i] \in Digits

\* a validator that cleans the number and rewrites nothing
validate_phone_value_cleaned(phone) == Filter(phone, Digits \cup {"+"})

\* Customer.validate_phone: the cleaned and rewritten number
validate_phone_value(phone) ==
  LET cleaned == Filter(phone, Digits \cup {"+"})
  IN IF Len(cleaned) = 10 /\ cleaned[1] = "0"
     THEN <<"+", "2", "5", "4">> \o Tail(cleaned)
     ELSE cleaned

\* Customer.validate_phone: "raise" or not; an empty phone is stored as NULL
validate_phone(phone) ==
  IF Len(phone) = 0 THEN "ok"
  ELSE IF ~phone_matches(validate_phone_value(phone)) THEN "InvalidPhoneError"
  ELSE "ok"

\* what a handler printed last: the handler, its outcome, the validation or
\* exception text, and the id and number it read
Printed(op, msg, errors, id, n) ==
  [op |-> op, msg |-> msg, errors |-> errors, id |-> id, n |-> n]

\* forms typed at the prompts of create_customer: two that are stored, one
\* of them with a router id that starts with 0, ...
FormJ ==
  [name |-> <<"J", "o">>, email |-> <<"J", "@", "X", ".", "C", "O">>,
   phone |-> <<>>,
   router_id |-> <<"1", "2", "3", "4", "5", "6", "7", "8", "9", "0">>]

FormE ==
  [name |-> <<"E", "d">>, email |-> <<"e", "@", "y", ".", "i", "o">>,
   phone |-> <<"0", "7", "1", "2", "3", "4", "5", "6", "7", "8">>,
   router_id |-> <<"0", "1", "2", "3", "4", "5", "6", "7", "8", "9">>]

\* ... and three that are not: all three fields of validate_customer_data
\* wrong, an email without a dot after the "@", a phone that is no Kenyan
\* mobile number
FormsRefused ==
  { [name |-> <<>>, email |-> <<"b", "a", "d">>, phone |-> <<>>,
     router_id |-> <<"1", "2", "3">>],
    [name |-> <<"B", "o">>, email |-> <<"b", "@", "c">>, phone |-> <<>>,
     router_id |-> <<"1", "0", "0", "0", "0", "0", "0", "0", "0", "2">>],
    [name |-> <<"S", "y">>, email |-> <<"s", "@", "y", ".", "i", "o">>,
     phone |-> <<"1", "2", "3", "4", "5">>,
     router_id |-> <<"1", "0", "0", "0", "0", "0", "0", "0", "0", "3">>] }

CustomerForms == {FormJ, FormE} \cup FormsRefused

\* the unique indexes ix_customers_email and ix_customers_router_id
customers_unique(rows) ==
  \A i, j \in DOMAIN rows :
    i # j => rows[i].email # rows[j].email /\ rows[i].router_id # rows[j].router_id

\* str(n) of a one-digit number
str(n) == <<CHOOSE c \in Digits : DigitVal(c) = n>>

\* answers typed at an id prompt: the ids 1..max, and a non-number
IdInputs(max) == {str(i) : i \in 1..max} \cup {<<"x">>}

Confirms == {"y", "n"}

\* db.get(Model, int(text)) if text.isdigit() else None: the id, or None
db_get(rows, text) ==
  IF isdigit(text) /\ int(text) \in DOMAIN rows THEN int(text) ELSE None

\* rows without the keys in gone
Without(rows, gone) == [i \in DOMAIN rows \ gone |-> rows[i]]

\* rows with one more row under key id
With(rows, id, row) ==
  [i \in DOMAIN rows \cup {id} |-> IF i = id THEN row ELSE rows[i]]

\* Customer(name=..., email=..., phone=..., router_id=int(router_id)) as stored
Customer(f) ==
  [name |-> f.name, email |-> validate_email_value(f.email),
   phone |-> validate_phone_value(f.phone), router_id |-> int(f.router_id)]

create_customer(f) ==
  LET errors == validate_customer_data(f.name, f.email, f.router_id)
      raised == IF validate_email(f.email) # "ok" THEN validate_email(f.email)
                ELSE validate_phone(f.phone)
      id == sqlite_sequence.customers + 1
      row == Customer(f)
      rows == With(customers, id, row)
  IN /\ sqlite_sequence.customers < MaxCustomers
     /\ IF errors # <<>>
        THEN /\ out' = Printed("create_customer", "validation", errors, None, None)
             /\ UNCHANGED <<today, store>>
        ELSE IF raised # "ok"
        THEN /\ out' = Printed("create_customer", "error", <<raised>>, None, None)
             /\ UNCHANGED <<today, store>>
        ELSE IF ~customers_unique(rows)
        THEN /\ out' = Printed("create_customer", "error", <<"IntegrityError">>, None, None)
             /\ UNCHANGED <<today, store>>
        ELSE /\ customers' = rows
             /\ sqlite_sequence' = [sqlite_sequence EXCEPT !.customers = id]
             /\ out' = Printed("create_customer", "created", <<>>, id, None)
             /\ UNCHANGED <<today, plans, subscriptions>>

\* str(n) of a number that is not negative
RECURSIVE str_int(_)
str_int(n) == IF n < 10 THEN str(n) ELSE str_int(n \div 10) \o str(n % 10)

\* an except clause that leaves the session as it is: what was assigned
\* before the exception is written by the next commit
rollback_nothing(committed, assigned) == assigned

\* db.rollback(): the session goes back to what was committed, and what was
\* assigned to its objects before the exception is dropped
rollback(committed, assigned) == committed

\* forms typed at the prompts of update_customer, a blank keeps the field:
\* nothing changed, a change of all three fields that is stored, ...
EditAl ==
  [name |-> <<"A", "l">>, email |-> <<"A", "@", "Z", ".", "I", "O">>,
   phone |-> <<"0", "7", "1", "2", "3", "4", "5", "6", "7", "8">>]

\* ... one that validate_customer_data refuses, a new name with an email
\* without a dot after the "@", and a new name and email with a phone that
\* is no Kenyan mobile number
CustomerEdits ==
  { [name |-> <<>>, email |-> <<>>, phone |-> <<>>],
    EditAl,
    [name |-> <<"A", "l">>, email |-> <<"b", "a", "d">>, phone |-> <<>>],
    [name |-> <<"A", "l">>, email |-> <<"b", "@", "c">>, phone |-> <<>>],
    [name |-> <<"A", "l">>, email |-> <<"n", "@", "z", ".", "i", "o">>,
     phone |-> <<"1", "2", "3", "4", "5">>] }

update_customer(cust_id, f) ==
  LET id == db_get(customers, cust_id)
      customer == customers[id]
      new_name == IF f.name = <<>> THEN customer.name ELSE f.name
      new_email == IF f.email = <<>> THEN customer.email ELSE f.email
      new_phone == IF f.phone = <<>> THEN customer.phone ELSE f.phone
      errors == validate_customer_data(new_name, new_email,
                                       str_int(customer.router_id))
      named == [customer EXCEPT !.name = new_name]
      mailed == [named EXCEPT !.email = validate_email_value(new_email)]
      phoned == [mailed EXCEPT !.phone = validate_phone_value(new_phone)]
      failed(raised, assigned) ==
        /\ customers' = rollback(customers, With(customers, id, assigned))
        /\ out' = Printed("update_customer", "error", <<raised>>, id, None)
        /\ UNCHANGED <<today, plans, subscriptions, sqlite_sequence>>
  IN IF id = None
     THEN /\ out' = Printed("update_customer", "Invalid Customer ID", <<>>, None, None)
          /\ UNCHANGED <<today, store>>
     ELSE IF errors # <<>>
     THEN /\ out' = Printed("update_customer", "validation", errors, id, None)
          /\ UNCHANGED <<today, store>>
     ELSE IF validate_email(new_email) # "ok"
     THEN failed(validate_email(new_email), named)
     ELSE IF validate_phone(new_phone) # "ok"
     THEN failed(validate_phone(new_phone), mailed)
     ELSE IF ~customers_unique(With(customers, id, phoned))
     THEN failed("IntegrityError", phoned)
     ELSE /\ customers' = With(customers, id, phoned)
          /\ out' = Printed("update_customer", "updated", <<>>, id, None)
          /\ UNCHANGED <<today, plans, subscriptions, sqlite_sequence>>

\* SQL LIKE: "%" in the pattern stands for any text, "_" for any one
\* character
RECURSIVE like(_, _)
like(text, pattern) ==
  IF pattern = <<>> THEN text = <<>>
  ELSE IF Head(pattern) = "%"
  THEN \/ like(text, Tail(pattern))
       \/ text # <<>> /\ like(Tail(text), pattern)
  ELSE /\ text # <<>>
       /\ Head(pattern) = "_" \/ Head(pattern) = Head(text)
       /\ like(Tail(text), Tail(pattern))

\* column.ilike(f"%{term}%"): lower(column) LIKE lower(pattern)
ilike(text, term) == like(Lower(text), <<"%">> \o Lower(term) \o <<"%">>)

\* terms typed at the prompt of search_customers: none, part of a name in
\* both cases, part of an email, part of a router id, and one that is in
\* no customer
SearchTerms ==
  { <<>>, <<"j", "o">>, <<"J", "O">>, <<"@", "y">>, <<"3", "4", "5">>,
    <<"z", "z">> }

\* search_customers: the customers found are printed by list_customers, which
\* is given a query where it expects the session and calls .query on it; the
\* AttributeError is caught by no handler
search_customers(term) ==
  LET results == {c \in DOMAIN customers :
                    \/ ilike(customers[c].name, term)
                    \/ ilike(customers[c].email, term)
                    \/ ilike(str_int(customers[c].router_id), term)}
  IN /\ out' = IF term = <<>>
               THEN Printed("search_customers", "Please enter a search term",
                            <<>>, None, None)
               ELSE IF results = {}
               THEN Printed("search_customers", "No matching customers found",
                            <<>>, None, 0)
               ELSE Printed("search_customers", "Found", <<"AttributeError">>,
                            None, Cardinality(results))
     /\ UNCHANGED <<today, store>>

\* a relationship that cascades nothing
cascade_nothing(id) == {}

\* Customer.subscriptions, cascade="all, delete-orphan": the rows that
\* db.delete(customer) deletes with the customer
cascade_all_delete_orphan(id) ==
  {s \in DOMAIN subscriptions : subscriptions[s].customer_id = id}

delete_customer(cust_id, confirm) ==
  LET id == db_get(customers, cust_id)
  IN IF id = None
     THEN /\ out' = Printed("delete_customer", "Invalid Customer ID", <<>>, None, None)
          /\ UNCHANGED <<today, store>>
     ELSE IF confirm # "y"
     THEN /\ out' = Printed("delete_customer", "Deletion cancelled", <<>>, id, None)
          /\ UNCHANGED <<today, store>>
     ELSE /\ customers' = Without(customers, {id})
          /\ subscriptions' = Without(subscriptions, cascade_all_delete_orphan(id))
          /\ out' = Printed("delete_customer", "deleted", <<>>, id, None)
          /\ UNCHANGED <<today, plans, sqlite_sequence>>

\* ------------------------------------------------------------------- plans

\* float(price) raises ValueError: the prices typed here are unsigned whole
\* numbers or not numbers at all
float_raises(price) == ~isdigit(price)

validate_plan_data(name, speed, price) ==
  (IF Len(name) = 0 THEN <<"Plan name is required">> ELSE <<>>)
  \o (IF Len(speed) = 0 THEN <<"Speed description is required">> ELSE <<>>)
  \o (IF float_raises(price) THEN <<"Invalid price format">>
      ELSE IF ~(2000 <= int(price) /\ int(price) <= 100000)
      THEN <<"Price must be between KES 2000-100000">> ELSE <<>>)

\* re.match(r'^\d+\s?(Mbps|Gbps)$', speed, re.IGNORECASE)
speed_matches(speed) ==
  \E k \in 1..Len(speed) :
    /\ \A i \in 1..k : speed[i] \in Digits
    /\ LET unit == Lower(SubSeq(speed, k + 1, Len(speed)))
       IN unit \in { <<"m", "b", "p", "s">>, <<"g", "b", "p", "s">>,
                     <<" ", "m", "b", "p", "s">>, <<" ", "g", "b", "p", "s">> }

\* Plan.validate_speed
validate_speed(speed) ==
  IF ~speed_matches(speed) THEN "InvalidSpeedError" ELSE "ok"

\* Plan.validate_name
validate_name(name) == Title(name)

\* forms typed at the prompts of create_plan: one that is stored, one that
\* validate_plan_data refuses and one that Plan.validate_speed refuses
FormBasic ==
  [name |-> <<"b", "a", "s", "i", "c">>,
   speed |-> <<"1", "0", "M", "b", "p", "s">>,
   price |-> <<"2", "5", "0", "0">>]

FormX ==
  [name |-> <<"x">>, speed |-> <<"b", "a", "d">>, price |-> <<"5", "0", "0">>]

PlanForms ==
  { FormBasic,
    FormX,
    [name |-> <<"p", "r", "o">>, speed |-> <<"b", "a", "d">>,
     price |-> <<"3", "0", "0", "0">>] }

\* the unique index ix_plans_name
plans_unique(rows) ==
  \A i, j \in DOMAIN rows : i # j => rows[i].name # rows[j].name

create_plan(f) ==
  LET errors == validate_plan_data(f.name, f.speed, f.price)
      raised == validate_speed(f.speed)
      id == sqlite_sequence.plans + 1
      row == [name |-> validate_name(f.name), speed |-> f.speed,
              price |-> int(f.price)]
      rows == With(plans, id, row)
  IN /\ sqlite_sequence.plans < MaxPlans
     /\ IF errors # <<>>
        THEN /\ out' = Printed("create_plan", "validation", errors, None, None)
             /\ UNCHANGED <<today, store>>
        ELSE IF raised # "ok"
        THEN /\ out' = Printed("create_plan", "error", <<raised>>, None, None)
             /\ UNCHANGED <<today, store>>
        ELSE IF ~plans_unique(rows)
        THEN /\ out' = Printed("create_plan", "error", <<"IntegrityError">>, None, None)
             /\ UNCHANGED <<today, store>>
        ELSE /\ plans' = rows
             /\ sqlite_sequence' = [sqlite_sequence EXCEPT !.plans = id]
             /\ out' = Printed("create_plan", "created", <<>>, id, None)
             /\ UNCHANGED <<today, customers, subscriptions>>

\* forms typed at the prompts of update_plan, a blank keeps the field: a new
\* name, speed and price that are stored, a price that validate_plan_data
\* refuses, and a new name with a speed that Plan.validate_speed refuses
PlanEdits ==
  { [name |-> <<"p", "r", "o">>, speed |-> <<"5", "G", "b", "p", "s">>,
     price |-> <<"3", "0", "0", "0">>],
    [name |-> <<>>, speed |-> <<>>, price |-> <<"5", "0", "0">>],
    [name |-> <<"p", "r", "o">>, speed |-> <<"b", "a", "d">>, price |-> <<>>] }

update_plan(plan_id, f) ==
  LET id == db_get(plans, plan_id)
      plan == plans[id]
      new_name == IF f.name = <<>> THEN plan.name ELSE f.name
      new_speed == IF f.speed = <<>> THEN plan.speed ELSE f.speed
      new_price == IF f.price = <<>> THEN str_int(plan.price) ELSE f.price
      errors == validate_plan_data(new_name, new_speed, new_price)
      named == [plan EXCEPT !.name = validate_name(new_name)]
      sped == [named EXCEPT !.speed = new_speed]
      priced == [sped EXCEPT !.price = int(new_price)]
      failed(raised, assigned) ==
        /\ plans' = rollback(plans, With(plans, id, assigned))
        /\ out' = Printed("update_plan", "error", <<raised>>, id, None)
        /\ UNCHANGED <<today, customers, subscriptions, sqlite_sequence>>
  IN IF id = None
     THEN /\ out' = Printed("update_plan", "Invalid Plan ID", <<>>, None, None)
          /\ UNCHANGED <<today, store>>
     ELSE IF errors # <<>>
     THEN /\ out' = Printed("update_plan", "validation", errors, id, None)
          /\ UNCHANGED <<today, store>>
     ELSE IF validate_speed(new_speed) # "ok"
     THEN failed(validate_speed(new_speed), named)
     ELSE IF ~plans_unique(With(plans, id, priced))
     THEN failed("IntegrityError", priced)
     ELSE /\ plans' = With(plans, id, priced)
          /\ out' = Printed("update_plan", "updated", <<>>, id, None)
          /\ UNCHANGED <<today, customers, subscriptions, sqlite_sequence>>

\* bool(plan.subscriptions): the relationship is lazy="dynamic", so the value
\* is a query object, which defines neither __bool__ nor __len__ and is
\* therefore true whatever rows it would return
dynamic_relationship_truth(rows) == TRUE

delete_plan(plan_id, confirm) ==
  LET id == db_get(plans, plan_id)
      subs == {s \in DOMAIN subscriptions : subscriptions[s].plan_id = id}
  IN IF id = None
     THEN /\ out' = Printed("delete_plan", "Invalid Plan ID", <<>>, None, None)
          /\ UNCHANGED <<today, store>>
     ELSE IF dynamic_relationship_truth(subs)
     THEN /\ out' = Printed("delete_plan", "Cannot delete", <<>>, id, None)
          /\ UNCHANGED <<today, store>>
     ELSE IF confirm # "y"
     THEN /\ out' = Printed("delete_plan", "Deletion cancelled", <<>>, id, None)
          /\ UNCHANGED <<today, store>>
     ELSE /\ plans' = Without(plans, {id})
          /\ out' = Printed("delete_plan", "deleted", <<>>, id, None)
          /\ UNCHANGED <<today, customers, subscriptions, sqlite_sequence>>

\* ----------------------------------------------------------- subscriptions

\* CheckConstraint valid_end_date
valid_end_date(r) == r.end_date = None \/ r.end_date >= r.start_date

\* CheckConstraint valid_status
valid_status(r) == r.status \in {"active", "suspended", "terminated", "expired"}

\* a router_id that is not a number is stored as text; the model writes such
\* a value as a negative number
is_text(v) == v < 0

\* CheckConstraint valid_router_id, router_id BETWEEN 1000000000 AND 9999999999:
\* SQLite orders every text after every number, so text is never <= the upper
\* end; v <= 9999999999 is written v div 10 <= 999999999
valid_router_id(r) ==
  /\ is_text(r.router_id) \/ r.router_id >= 1000000000
  /\ ~is_text(r.router_id) /\ r.router_id \div 10 <= 999999999

\* a table created without its CHECK constraints
table_args_unchecked(r) == "ok"

\* Subscription.__table_args__: the CHECK constraint a row fails, which the
\* IntegrityError names, or "ok"
table_args(r) ==
  IF ~valid_end_date(r) THEN "valid_end_date"
  ELSE IF ~valid_status(r) THEN "valid_status"
  ELSE IF ~valid_router_id(r) THEN "valid_router_id"
  ELSE "ok"

\* the unique index ix_subscriptions_router_id
subscriptions_unique(rows) ==
  \A i, j \in DOMAIN rows : i # j => rows[i].router_id # rows[j].router_id

\* what the database answers when these subscription rows are flushed: the
\* constraint that fails, CHECKs before unique indexes, or "ok"
IntegrityError(rows) ==
  IF \E i \in DOMAIN rows : table_args(rows[i]) # "ok"
  THEN table_args(rows[CHOOSE i \in DOMAIN rows : table_args(rows[i]) # "ok"])
  ELSE IF ~subscriptions_unique(rows) THEN "ix_subscriptions_router_id"
  ELSE "ok"

subscriptions_ok(rows) == IntegrityError(rows) = "ok"

\* a validator that lets every start date through
validate_start_date_never(start_date) == "ok"

\* Subscription.validate_start_date
validate_start_date(start_date) ==
  IF start_date < today THEN "InvalidSubscriptionDateError" ELSE "ok"

validate_subscription_input(customer_id, plan_id, duration) ==
  (IF ~isdigit(customer_id) THEN <<"Customer ID must be a number">> ELSE <<>>)
  \o (IF ~isdigit(plan_id) THEN <<"Plan ID must be a number">> ELSE <<>>)
  \o (IF ~isdigit(duration) \/ int(duration) < 1
      THEN <<"Duration must be at least 1 month">> ELSE <<>>)

\* answers typed at a "how many months" prompt
MonthInputs(max) == {str(i) : i \in 0..max} \cup {<<>>, <<"x">>}

create_subscription(cust_id, plan_id, typed) ==
  LET duration == IF typed = <<>> THEN <<"1">> ELSE typed
      errors == validate_subscription_input(cust_id, plan_id, duration)
      customer == db_get(customers, cust_id)
      plan == db_get(plans, plan_id)
      start_date == today
      end_date == relativedelta_months(start_date, int(duration))
      id == sqlite_sequence.subscriptions + 1
      row == [customer_id |-> customer, plan_id |-> plan,
              router_id |-> customers[customer].router_id,
              status |-> "active", start_date |-> start_date,
              end_date |-> end_date, last_reminder_sent |-> None]
      rows == With(subscriptions, id, row)
      same(msg, errs) ==
        /\ out' = Printed("create_subscription", msg, errs, None, None)
        /\ UNCHANGED <<today, store>>
  IN IF DOMAIN customers = {} THEN same("No customers available", <<>>)
     ELSE IF DOMAIN plans = {} THEN same("No plans available", <<>>)
     ELSE IF errors # <<>> THEN same("validation", errors)
     ELSE IF customer = None THEN same("Customer not found", <<>>)
     ELSE IF plan = None THEN same("Plan not found", <<>>)
     ELSE IF validate_start_date(start_date) # "ok"
     THEN same("error", <<validate_start_date(start_date)>>)
     ELSE IF ~subscriptions_ok(rows)
     THEN /\ out' = Printed("create_subscription", "error",
                            <<"IntegrityError", IntegrityError(rows)>>,
                            customer, int(duration))
          /\ UNCHANGED <<today, store>>
     ELSE /\ subscriptions' = rows
          /\ sqlite_sequence' = [sqlite_sequence EXCEPT !.subscriptions = id]
          /\ out' = Printed("create_subscription", "created", <<>>, id, int(duration))
          /\ UNCHANGED <<today, customers, plans>>

\* Subscription.is_active
is_active(r) ==
  r.status = "active" /\ (r.end_date = None \/ r.end_date >= today)

\* a filter on the status column alone
list_filter_status_only(status, r) ==
  status \in {"active", "expired"} => r.status = "active"

\* the filter of list_subscriptions; a comparison with a NULL end date is
\* not true in SQL
list_filter(status, r) ==
  CASE status = "active" ->
         /\ r.status = "active"
         /\ r.end_date = None \/ r.end_date >= today
    [] status = "expired" ->
         /\ r.status = "active"
         /\ r.end_date # None /\ r.end_date < today
    [] OTHER -> TRUE

\* the rows list_subscriptions prints
listed(status) ==
  {s \in DOMAIN subscriptions : list_filter(status, subscriptions[s])}

list_subscriptions(status) ==
  /\ out' = Printed("list_subscriptions", status, <<>>, None,
                    Cardinality(listed(status)))
  /\ UNCHANGED <<today, store>>

status_map(status_choice) ==
  CASE status_choice = "1" -> "active"
    [] status_choice = "2" -> "suspended"
    [] status_choice = "3" -> "terminated"

\* the end date pushed past the bound of the model
TooFar(end_date) == MonthCount(end_date) - MonthCount(today) > MaxAhead

\* the extension counted from the end date that has passed
reactivated_end_date_from_end(sub, extend) ==
  IF isdigit(extend) /\ int(extend) > 0
  THEN relativedelta_months(sub.end_date, int(extend))
  ELSE sub.end_date

\* the end date after the answer to "Subscription expired. Extend by how many
\* months? (0 to keep expired)"
reactivated_end_date(sub, extend) ==
  IF isdigit(extend) /\ int(extend) > 0
  THEN relativedelta_months(today, int(extend))
  ELSE sub.end_date

\* a status that stays terminated once it is
new_status_absorbing(sub, status_choice) ==
  IF sub.status = "terminated" THEN "terminated" ELSE status_map(status_choice)

\* subscription.status = status_map[status_choice], whatever the status was
new_status(sub, status_choice) == status_map(status_choice)

\* update_subscription, "1. Update Status"
update_subscription_status(sub_id, status_choice, extend) ==
  LET id == db_get(subscriptions, sub_id)
      sub == subscriptions[id]
      asked == /\ status_choice = "1"
               /\ sub.end_date # None
               /\ sub.end_date < today
      end_date == IF asked THEN reactivated_end_date(sub, extend)
                  ELSE sub.end_date
      row == [sub EXCEPT !.status = new_status(sub, status_choice),
                         !.end_date = end_date]
      rows == [subscriptions EXCEPT ![id] = row]
      same(msg, errs) ==
        /\ out' = Printed("update_subscription", msg, errs, id, None)
        /\ UNCHANGED <<today, store>>
  IN IF id = None THEN same("Subscription not found", <<>>)
     ELSE IF status_choice \notin {"1", "2", "3"} THEN same("Invalid choice", <<>>)
     ELSE /\ ~TooFar(end_date)
          /\ IF ~subscriptions_ok(rows) THEN same("error", <<"IntegrityError", IntegrityError(rows)>>)
             ELSE /\ subscriptions' = rows
                  /\ out' = Printed("update_subscription",
                                    IF asked THEN "Status updated, asked"
                                    ELSE "Status updated",
                                    <<status_map(status_choice)>>, id,
                                    IF asked /\ isdigit(extend) THEN int(extend)
                                    ELSE None)
                  /\ UNCHANGED <<today, customers, plans, sqlite_sequence>>

\* any number of months taken, 0 too
months_refused_never(months) == ~isdigit(months)

\* not months.isdigit() or int(months) < 1
months_refused(months) == ~isdigit(months) \/ int(months) < 1

\* the months counted from today
extended_from_today(sub, months) == relativedelta_months(today, int(months))

\* the months counted from the start date
extended_from_start(sub, months) ==
  relativedelta_months(sub.start_date, int(months))

\* subscription.end_date += relativedelta(months=int(months))
extended(sub, months) == relativedelta_months(sub.end_date, int(months))

\* update_subscription, "2. Extend Duration"
update_subscription_extend(sub_id, months) ==
  LET id == db_get(subscriptions, sub_id)
      sub == subscriptions[id]
      end_date == extended(sub, months)
      rows == [subscriptions EXCEPT ![id].end_date = end_date]
      same(msg, errs) ==
        /\ out' = Printed("extend_subscription", msg, errs, id, None)
        /\ UNCHANGED <<today, store>>
  IN IF id = None THEN same("Subscription not found", <<>>)
     ELSE IF sub.end_date = None THEN same("Cannot extend", <<>>)
     ELSE IF months_refused(months)
     THEN same("Must extend by at least 1 month", <<>>)
     ELSE /\ ~TooFar(end_date)
          /\ IF ~subscriptions_ok(rows) THEN same("error", <<"IntegrityError", IntegrityError(rows)>>)
             ELSE /\ subscriptions' = rows
                  /\ out' = Printed("extend_subscription", "Extended", <<>>, id,
                                    int(months))
                  /\ UNCHANGED <<today, customers, plans, sqlite_sequence>>

\* the row deleted
terminated_hard(rows, id) == Without(rows, {id})

\* subscription.status = 'terminated'
terminated(rows, id) == [rows EXCEPT ![id].status = "terminated"]

delete_subscription(sub_id, confirm) ==
  LET id == db_get(subscriptions, sub_id)
      rows == terminated(subscriptions, id)
      same(msg, errs) ==
        /\ out' = Printed("delete_subscription", msg, errs, id, None)
        /\ UNCHANGED <<today, store>>
  IN IF id = None THEN same("Subscription not found", <<>>)
     ELSE IF confirm # "y" THEN same("Cancellation aborted", <<>>)
     ELSE IF ~subscriptions_ok(rows) THEN same("error", <<"IntegrityError", IntegrityError(rows)>>)
     ELSE /\ subscriptions' = rows
          /\ out' = Printed("delete_subscription", "cancelled", <<>>, id, None)
          /\ UNCHANGED <<today, customers, plans, sqlite_sequence>>

\* the rows the query of check_expiring_subscriptions returns
expiring ==
  LET deadline == relativedelta_days(today, 7)
  IN {s \in DOMAIN subscriptions :
        /\ subscriptions[s].customer_id \in DOMAIN customers
        /\ subscriptions[s].status = "active"
        /\ subscriptions[s].end_date # None
        /\ today <= subscriptions[s].end_date
        /\ subscriptions[s].end_date <= deadline
        /\ \/ subscriptions[s].last_reminder_sent = None
           \/ subscriptions[s].last_reminder_sent < today}

check_expiring_subscriptions ==
  LET flagged == {s \in expiring :
                    Len(customers[subscriptions[s].customer_id].email) > 0}
      rows == [s \in DOMAIN subscriptions |->
                 IF s \in flagged
                 THEN [subscriptions[s] EXCEPT !.last_reminder_sent = today]
                 ELSE subscriptions[s]]
  IN IF expiring = {}
     THEN /\ out' = Printed("check_expiring", "No subscriptions need reminders",
                            <<>>, None, None)
          /\ UNCHANGED <<today, store>>
     ELSE /\ subscriptions' = rows
          /\ out' = Printed("check_expiring", "Reminder flags updated", <<>>, None,
                            Cardinality(expiring))
          /\ UNCHANGED <<today, customers, plans, sqlite_sequence>>

\* ------------------------------------------------------------ System Tools

\* range(20) in seed_database
SeedRecords == 20

\* the three plans seed_database adds, in order
SeedPlans ==
  << [name |-> <<"B", "a", "s", "i", "c">>,
      speed |-> <<"1", "0", " ", "M", "b", "p", "s">>, price |-> 2500],
     [name |-> <<"S", "t", "a", "n", "d", "a", "r", "d">>,
      speed |-> <<"5", "0", " ", "M", "b", "p", "s">>, price |-> 6000],
     [name |-> <<"P", "r", "e", "m", "i", "u", "m">>,
      speed |-> <<"1", "0", "0", " ", "M", "b", "p", "s">>, price |-> 9999] >>

\* what the random generator yields for one record of the loop: whether the
\* phone "+2547" followed by its random number passes validate_phone, which
\* of the three plans, and which status
SeedDraw(phone_ok, plan, status) ==
  [phone_ok |-> phone_ok, plan |-> plan, status |-> status]

\* the draws of the whole loop: the same for every record, or a first phone
\* that passes and a second that does not
SeedDraws ==
  { [i \in 1..SeedRecords |-> SeedDraw(TRUE, 1, "active")],
    [i \in 1..SeedRecords |-> SeedDraw(TRUE, 2, "canceled")],
    [i \in 1..SeedRecords |-> SeedDraw(i # 2, 3, "paused")] }

\* the customer of record i: fake name and email, uuid4()[:10] as router_id
SeedCustomer(i) ==
  [name |-> <<"F">> \o str(i \div 10) \o str(i % 10),
   email |-> <<"f">> \o str(i \div 10) \o str(i % 10) \o <<"@", "x", ".", "i", "o">>,
   phone |-> <<"+", "2", "5", "4", "7", "1", "2", "3", "4", "5", "6", "7", "8">>,
   router_id |-> 0 - i]

RECURSIVE seed_loop(_, _, _, _, _, _)
\* the loop of seed_database from record i on: custs and subs are the rows
\* flushed so far, seq the id counters, pending the subscription added to the
\* session and not yet flushed (<<>> when none).  The result is the tables
\* the final commit stores, or "failed" when an exception ends the loop.
seed_loop(i, custs, subs, seq, pending, draws) ==
  LET sid == seq.subscriptions + 1
      flushed == IF pending = <<>> THEN subs ELSE With(subs, sid, pending[1])
      seq1 == IF pending = <<>> THEN seq ELSE [seq EXCEPT !.subscriptions = sid]
      cid == seq1.customers + 1
      custs1 == With(custs, cid, SeedCustomer(i))
      sub == [customer_id |-> cid,
              plan_id |-> seq.plans - 3 + draws[i].plan,
              router_id |-> SeedCustomer(i).router_id,
              status |-> draws[i].status, start_date |-> today,
              end_date |-> None, last_reminder_sent |-> None]
  IN IF i > SeedRecords
     THEN IF subscriptions_ok(flushed)
          THEN [msg |-> "seeded", customers |-> custs, subscriptions |-> flushed,
                sqlite_sequence |-> seq1]
          ELSE [msg |-> "failed"]
     ELSE IF ~draws[i].phone_ok THEN [msg |-> "failed"]
     ELSE IF ~subscriptions_ok(flushed) \/ ~customers_unique(custs1)
     THEN [msg |-> "failed"]
     ELSE seed_loop(i + 1, custs1, flushed, [seq1 EXCEPT !.customers = cid],
                    <<sub>>, draws)

\* InternetServiceCLI.seed_database
seed_database(confirm, draws) ==
  LET first == sqlite_sequence.plans
      seeded == [i \in (first + 1)..(first + 3) |-> SeedPlans[i - first]]
      seq == [sqlite_sequence EXCEPT !.plans = first + 3]
      done == seed_loop(1, <<>>, <<>>, seq, <<>>, draws)
  IN IF confirm # "y"
     THEN /\ out' = Printed("seed_database", "not confirmed", <<>>, None, None)
          /\ UNCHANGED <<today, store>>
     ELSE /\ sqlite_sequence.plans + 3 <= MaxPlans
          /\ plans' = seeded
          /\ IF done.msg = "seeded"
             THEN /\ customers' = done.customers
                  /\ subscriptions' = done.subscriptions
                  /\ sqlite_sequence' = done.sqlite_sequence
                  /\ out' = Printed("seed_database", "seeded", <<>>, None, None)
             ELSE /\ customers' = <<>>
                  /\ subscriptions' = <<>>
                  /\ sqlite_sequence' = seq
                  /\ out' = Printed("seed_database", "Seeding failed", <<>>, None, None)
          /\ UNCHANGED today

\* ------------------------------------------------------------------- clock

\* the days on which the program is used: the day a first subscription is
\* sold, the day its one-month end date is 7 days off, the end date itself,
\* and the day after
Days == <<20240115, 20240208, 20240215, 20240216>>

\* a clock that marks as expired what has run out by the new day
Tick_marks_expired(day) ==
  /\ day > today
  /\ today' = day
  /\ subscriptions' =
       [s \in DOMAIN subscriptions |->
          IF subscriptions[s].end_date # None /\ subscriptions[s].end_date < day
          THEN [subscriptions[s] EXCEPT !.status = "expired"]
          ELSE subscriptions[s]]
  /\ out' = Printed("main_menu", "", <<>>, None, None)
  /\ UNCHANGED <<customers, plans, sqlite_sequence>>

\* the value of date.today() moves on to a later day of use
Tick(day) ==
  /\ day > today
  /\ today' = day
  /\ out' = Printed("main_menu", "", <<>>, None, None)
  /\ UNCHANGED store

\* ----------------------------------------------------------- specification

Init ==
  /\ today = Days[1]
  /\ customers = <<>>
  /\ plans = <<>>
  /\ subscriptions = <<>>
  /\ sqlite_sequence = [customers |-> 0, plans |-> 0, subscriptions |-> 0]
  /\ out = Printed("main_menu", "", <<>>, None, None)

\* InternetServiceCLI.main_menu: every handler of the four menus, with one
\* accepted and one refused answer at each prompt, on the first and the last
\* of the days of use
Next ==
  \/ \E f \in CustomerForms : create_customer(f)
  \/ \E c \in IdInputs(MaxCustomers), y \in Confirms : delete_customer(c, y)
  \/ \E f \in PlanForms : create_plan(f)
  \/ \E p \in IdInputs(MaxPlans), y \in Confirms : delete_plan(p, y)
  \/ \E c \in IdInputs(MaxCustomers), p \in IdInputs(MaxPlans),
        d \in {<<"0">>, <<"1">>} : create_subscription(c, p, d)
  \/ \E s \in IdInputs(MaxCustomers), c \in {"1", "2", "3", "9"},
        m \in {<<"0">>, <<"1">>} : update_subscription_status(s, c, m)
  \/ \E s \in IdInputs(MaxCustomers), m \in {<<"0">>, <<"1">>} :
        update_subscription_extend(s, m)
  \/ \E s \in IdInputs(MaxCustomers), y \in Confirms : delete_subscription(s, y)
  \/ check_expiring_subscriptions
  \/ \E y \in Confirms, draws \in SeedDraws : seed_database(y, draws)
  \/ \E day \in {Days[1], Days[Len(Days)]} : Tick(day)

Spec == Init /\ [][Next]_vars

\* ----------------------------------------------------------------- seed.py

\* seed.seed_database(record_count=1): two plans, ...
seed_py_plans ==
  << [name |-> <<"B", "a", "s", "i", "c">>,
      speed |-> <<"1", "0", " ", "M", "b", "p", "s">>, price |-> 2500],
     [name |-> <<"P", "r", "e", "m", "i", "u", "m">>,
      speed |-> <<"1", "0", "0", " ", "M", "b", "p", "s">>, price |-> 9999] >>

\* ... a customer with a fake name, email and phone and a random router id, ...
seed_py_customer ==
  [name |-> <<"A", "n">>, email |-> <<"a", "@", "y", ".", "i", "o">>,
   phone |-> <<"+", "2", "5", "4", "7", "1", "2", "3", "4", "5", "6", "7", "8">>,
   router_id |-> 1000000001]

\* ... and that customer's subscription: one of the plans, another random
\* router id, status active, the start date the server default gives and no
\* end date
seed_py_subscription(day) ==
  [customer_id |-> 1, plan_id |-> 1, router_id |-> 2000000002,
   status |-> "active", start_date |-> day, end_date |-> None,
   last_reminder_sent |-> None]

\* the store after seed.py has filled an empty database on a day and
\* create_customer has then stored FormJ
Seeded(day) ==
  /\ today = day
  /\ customers = <<seed_py_customer, Customer(FormJ)>>
  /\ plans = seed_py_plans
  /\ subscriptions = <<seed_py_subscription(day)>>
  /\ sqlite_sequence = [customers |-> 2, plans |-> 2, subscriptions |-> 1]
  /\ out = Printed("main_menu", "", <<>>, None, None)

\* ------------------------------------------------- the Subscription menu

\* days of use around two ends of months: a first subscription sold on the
\* last day of the year, others on 15 and 31 January, and two days on which
\* one-month subscriptions of January have run out
Calendar == <<20231231, 20240115, 20240131, 20240216, 20240301>>

InitSubscriptions == Seeded(Calendar[1])

\* InternetServiceCLI.subscription_menu on the seeded store: every answer to
\* the month prompts up to the bounds, subscriptions sold to the customer of
\* FormJ
NextSubscriptions ==
  \/ \E c \in {<<"2">>, <<"x">>}, p \in {<<"1">>, <<"9">>},
        d \in MonthInputs(MaxDuration) : create_subscription(c, p, d)
  \/ \E s \in IdInputs(MaxCustomers), c \in {"1", "2", "3", "9"},
        k \in MonthInputs(MaxExtend) : update_subscription_status(s, c, k)
  \/ \E s \in IdInputs(MaxCustomers), m \in MonthInputs(MaxExtend) :
        update_subscription_extend(s, m)
  \/ \E s \in IdInputs(MaxCustomers), y \in Confirms : delete_subscription(s, y)
  \/ \E status \in {"active", "expired", "all"} : list_subscriptions(status)
  \/ check_expiring_subscriptions
  \/ \E i \in DOMAIN Calendar : Tick(Calendar[i])

SpecSubscriptions == InitSubscriptions /\ [][NextSubscriptions]_vars

\* ------------------------------------------------------ the start date

\* DataGenerator.create_test_database, one subscription of its loop:
\* db.add(Subscription(customer_id=..., plan_id=..., router_id=customer.router_id
\* + 1000, status=..., start_date=..., end_date=today + 30 days)) and commit;
\* the constructor assigns the keywords in order, so validate_start_date runs
\* before the row reaches the session, and any exception is rolled back
add_subscription(customer, plan, status, start_date) ==
  LET id == sqlite_sequence.subscriptions + 1
      row == [customer_id |-> customer, plan_id |-> plan,
              router_id |-> customers[customer].router_id + 1000,
              status |-> status, start_date |-> start_date,
              end_date |-> timedelta_days(today, 30),
              last_reminder_sent |-> None]
      rows == With(subscriptions, id, row)
  IN IF validate_start_date(start_date) # "ok"
     THEN /\ out' = Printed("add_subscription", "error",
                            <<validate_start_date(start_date)>>,
                            customer, start_date)
          /\ UNCHANGED <<today, store>>
     ELSE IF ~subscriptions_ok(rows)
     THEN /\ out' = Printed("add_subscription", "error",
                            <<"IntegrityError", IntegrityError(rows)>>,
                            customer, start_date)
          /\ UNCHANGED <<today, store>>
     ELSE /\ subscriptions' = rows
          /\ sqlite_sequence' = [sqlite_sequence EXCEPT !.subscriptions = id]
          /\ out' = Printed("add_subscription", "created", <<>>, id, start_date)
          /\ UNCHANGED <<today, customers, plans>>

\* the days of use, and the day before the first of them
StartDays == <<Calendar[1], Calendar[2], Calendar[3]>>

InitStartDate == Seeded(StartDays[2])

\* subscriptions constructed with start dates before, on and after the day
\* of use, next to those that create_subscription sells
NextStartDate ==
  \/ \E c \in DOMAIN customers, i \in DOMAIN StartDays :
        add_subscription(c, 1, "active", StartDays[i])
  \/ \E c \in IdInputs(MaxCustomers) : create_subscription(c, <<"1">>, <<"1">>)
  \/ Tick(StartDays[3])

SpecStartDate == InitStartDate /\ [][NextStartDate]_vars

\* ------------------------------------------------- creates and updates

\* a plan form with every field wrong
FormNoPlan == [name |-> <<>>, speed |-> <<>>, price |-> <<"a", "b", "c">>]

\* the empty store on the second of the days
InitEdit ==
  /\ today = StartDays[2]
  /\ customers = <<>>
  /\ plans = <<>>
  /\ subscriptions = <<>>
  /\ sqlite_sequence = [customers |-> 0, plans |-> 0, subscriptions |-> 0]
  /\ out = Printed("main_menu", "", <<>>, None, None)

\* the Customers and Plans menus, create_subscription, and subscriptions
\* constructed with a start date of yesterday or today
NextEdit ==
  \/ \E f \in CustomerForms : create_customer(f)
  \/ \E c \in IdInputs(MaxCustomers), f \in CustomerEdits : update_customer(c, f)
  \/ \E c \in IdInputs(MaxCustomers), y \in Confirms : delete_customer(c, y)
  \/ \E f \in PlanForms \cup {FormNoPlan} : create_plan(f)
  \/ \E p \in IdInputs(MaxPlans), f \in PlanEdits : update_plan(p, f)
  \/ \E c \in {<<"1">>, <<"x">>}, p \in {<<"1">>, <<"x">>},
        d \in {<<"1">>, <<"0">>} : create_subscription(c, p, d)
  \/ \E c \in DOMAIN customers, p \in DOMAIN plans, i \in 1..2 :
        add_subscription(c, p, "active", StartDays[i])

SpecEdit == InitEdit /\ [][NextEdit]_vars

\* ------------------------------------------- the validators of Customer

\* phones given to Customer: every 10-digit number 0ab2345678, every
\* +2547d2345678, ...
PhoneTail == <<"2", "3", "4", "5", "6", "7", "8">>

\* ... and numbers of other lengths, with punctuation and with letters
PhoneInputs ==
  {<<"0", a, b>> \o PhoneTail : a, b \in Digits}
  \cup {<<"+", "2", "5", "4", "7", d>> \o PhoneTail : d \in Digits}
  \cup
  { <<>>,
    <<"1", "2", "3", "4", "5">>,
    <<"0", "7", "1", "2", "-", "3", "4", "5", "-", "6", "7", "8">>,
    <<"7", "1", "2", "3", "4", "5", "6", "7", "8">>,
    <<"2", "5", "4", "7", "1", "2", "3", "4", "5", "6", "7", "8">>,
    <<"0", "7", "1", "2", "3", "4", "5", "6", "7", "8", "9">>,
    <<"+", "2", "5", "4", " ", "7", "1", "2", " ", "3", "4", "5", " ", "6", "7", "8">>,
    <<"1", "7", "1", "2", "3", "4", "5", "6", "7", "8">>,
    <<"0", "7", "1", "2", "x", "4", "5", "6", "7", "8">>,
    <<"+", "2", "5", "4", "7", "1", "2", "3", "4", "5", "6", "7", "8", "x">>,
    <<"(", "0", "7", "1", "2", ")", " ", "3", "4", "5", "6", "7", "8">> }

\* emails given to Customer: in both cases, with white space at the ends,
\* with no, one and two "@", with the dot missing or misplaced
EmailInputs ==
  { <<"J", "O", "H", "N", "@", "E", "X", "A", "M", "P", "L", "E", ".", "C", "O", "M">>,
    <<"j", "o", "h", "n", "@", "e", "x", "a", "m", "p", "l", "e", ".", "c", "o", "m">>,
    <<" ", "J", "o", "@", "X", ".", "C", "o", " ">>,
    <<"a", " ", "b", "@", "c", ".", "d">>,
    <<"t", "e", "s", "t", "@", "e", "x", "a", "m", "p", "l", "e", ".", "c", "o", "m">>,
    <<"a", "@", "b", ".", "c", ".", "d">>,
    <<"i", "n", "v", "a", "l", "i", "d">>,
    <<>>,
    <<"b", "@", "c">>,
    <<"a", ".", "b", "@", "c">>,
    <<"@", "b", ".", "c">>,
    <<"a", "@", ".", "c">>,
    <<"a", "@", "b", ".">>,
    <<"a", "@", "b", "@", "c", ".", "d">>,
    <<"a", ".", "b", ".", "c">>,
    <<"a", "@", "@", "b", ".", "c">>,
    <<" ", "@", "b", ".", "c">>,
    <<"A", ".", "B", "@", "C", ".", "D", "E">> }

\* a value has been given for the phone or the email of a Customer
InitValidators ==
  /\ today = Days[1]
  /\ customers = <<>>
  /\ plans = <<>>
  /\ subscriptions = <<>>
  /\ sqlite_sequence = [customers |-> 0, plans |-> 0, subscriptions |-> 0]
  /\ \/ \E phone \in PhoneInputs : out = Printed("Customer", "phone", phone, None, None)
     \/ \E email \in EmailInputs : out = Printed("Customer", "email", email, None, None)

\* the @validates hook of phone runs on the value: what it raises, the value
\* it was given and the value it returns (None when it raises)
assign_phone ==
  /\ out.op = "Customer" /\ out.msg = "phone"
  /\ out' = Printed("validate_phone", validate_phone(out.errors), out.errors,
                    IF validate_phone(out.errors) = "ok"
                    THEN validate_phone_value(out.errors) ELSE None,
                    None)
  /\ UNCHANGED <<today, store>>

\* the @validates hook of email, likewise
assign_email ==
  /\ out.op = "Customer" /\ out.msg = "email"
  /\ out' = Printed("validate_email", validate_email(out.errors), out.errors,
                    IF validate_email(out.errors) = "ok"
                    THEN validate_email_value(out.errors) ELSE None,
                    None)
  /\ UNCHANGED <<today, store>>

NextValidators == assign_phone \/ assign_email

SpecValidators == InitValidators /\ [][NextValidators]_vars

\* ------------------------------------------------- execute_with_session

\* the steps of execute_with_session and get_db, which out records as the
\* place the program is at
SessionSteps == {"main_menu", "get_db", "execute_with_session"}

\* a menu is running inside "with get_db() as db"
InSession == out.op \notin SessionSteps

\* db.close(): the connection is released and what the session held without
\* a commit is discarded
session_close(committed, assigned) == committed

\* main_menu, option 3: execute_with_session enters "with get_db() as db" and
\* calls subscription_menu
enter_session ==
  /\ out.op = "main_menu"
  /\ out' = Printed("subscription_menu", "", <<>>, None, None)
  /\ UNCHANGED <<today, store>>

\* update_subscription, "1. Update Status", "1. Active" on a subscription
\* whose end date has passed: the status is assigned, and the prompt for the
\* months raises EOFError (the input has ended). No handler catches it, so it
\* leaves the with block, where the finally clause of get_db closes the session
update_subscription_raises(sub_id) ==
  LET id == db_get(subscriptions, sub_id)
      sub == subscriptions[id]
      assigned == [subscriptions EXCEPT ![id].status = status_map("1")]
  IN /\ InSession
     /\ id # None
     /\ sub.end_date # None /\ sub.end_date < today
     /\ subscriptions' = session_close(subscriptions, assigned)
     /\ out' = Printed("get_db", "close", <<"EOFError">>, id, None)
     /\ UNCHANGED <<today, customers, plans, sqlite_sequence>>

\* the choice "6. Back to Main": the menu returns, and get_db closes the
\* session
back_to_main ==
  /\ InSession
  /\ out' = Printed("get_db", "close", <<>>, None, None)
  /\ UNCHANGED <<today, store>>

\* the except clause of execute_with_session, reached with the session
\* already closed: print_error, then self.session.rollback()
except_clause ==
  /\ out.op = "get_db" /\ out.errors # <<>>
  /\ subscriptions' = rollback(subscriptions, subscriptions)
  /\ out' = Printed("execute_with_session", "rollback", out.errors, None, None)
  /\ UNCHANGED <<today, customers, plans, sqlite_sequence>>

\* the finally clause of execute_with_session: self.session = None, and
\* run() shows the main menu again
finally_clause ==
  /\ \/ out.op = "get_db" /\ out.errors = <<>>
     \/ out.op = "execute_with_session"
  /\ out' = Printed("main_menu", "", <<>>, None, None)
  /\ UNCHANGED <<today, store>>

InitSession == Seeded(Calendar[1])

\* the Subscription menu run through execute_with_session, on days on which
\* the one-month subscriptions have and have not run out
NextSession ==
  \/ enter_session
  \/ InSession /\ create_subscription(<<"2">>, <<"1">>, <<"1">>)
  \/ InSession /\ \E s \in IdInputs(MaxCustomers), c \in {"1", "2"} :
                    update_subscription_status(s, c, <<"1">>)
  \/ InSession /\ \E s \in IdInputs(MaxCustomers) : delete_subscription(s, "y")
  \/ \E s \in IdInputs(MaxCustomers) : update_subscription_raises(s)
  \/ back_to_main
  \/ except_clause
  \/ finally_clause
  \/ out.op = "main_menu" /\ \E i \in DOMAIN Calendar : Tick(Calendar[i])

SpecSession == InitSession /\ [][NextSession]_vars

\* ------------------------------------------------------ the search

\* the Customers menu from the empty store: customers are added, renamed,
\* searched for and deleted
NextSearch ==
  \/ \E f \in CustomerForms : create_customer(f)
  \/ \E c \in IdInputs(MaxCustomers), f \in CustomerEdits : update_customer(c, f)
  \/ \E term \in SearchTerms : search_customers(term)
  \/ \E c \in IdInputs(MaxCustomers), y \in Confirms : delete_customer(c, y)

SpecSearch == InitEdit /\ [][NextSearch]_vars

\* -------------------------------------------------------- the reminders

InitReminders == Seeded(Days[1])

\* the expiring sweep among one-month subscriptions of both customers, which
\* are suspended and set active again between sweeps
NextReminders ==
  \/ \E c \in {<<"1">>, <<"2">>} : create_subscription(c, <<"1">>, <<"1">>)
  \/ \E s \in IdInputs(MaxCustomers + 1), c \in {"1", "2"},
        k \in {<<"0">>, <<"1">>} : update_subscription_status(s, c, k)
  \/ check_expiring_subscriptions
  \/ \E i \in DOMAIN Days : Tick(Days[i])

SpecReminders == InitReminders /\ [][NextReminders]_vars

\* ------------------------------------------------------------- properties

\* a date n calendar months after d: the same day of the month n months on,
\* or the last day of that month when it has no such day
CalendarMonthsAfter(d, n) ==
  LET count == MonthCount(d) - 1 + n
      y == count \div 12
      m == (count % 12) + 1
  IN IF DayOf(d) <= monthrange(y, m) THEN MkDate(y, m, DayOf(d))
     ELSE MkDate(y, m, monthrange(y, m))

\* a whole number of at least min, as typed
IsNumber(text, min) == isdigit(text) /\ int(text) >= min

Statuses == {"active", "suspended", "terminated", "expired"}

\* C1: after any sequence of menu operations, the reseed of System Tools
\* included, the status of every stored subscription is one of active,
\* suspended, terminated, expired.
C1_StatusIsOneOfFour ==
  \A s \in DOMAIN subscriptions : subscriptions[s].status \in Statuses

\* a subscription that was terminated in a store the reseed has wiped and
\* given its three plans
C1_Witness ==
  /\ Cardinality(DOMAIN plans) = 3
  /\ \E s \in DOMAIN subscriptions : subscriptions[s].status = "terminated"

\* C2: after any sequence of create, extend, status update and cancel, every
\* stored subscription that has an end date has end_date >= start_date; and
\* it is the handlers that keep it so: the database never has to refuse one
\* of them for its dates.
C2_EndNotBeforeStart ==
  /\ \A s \in DOMAIN subscriptions :
       subscriptions[s].end_date # None
         => subscriptions[s].end_date >= subscriptions[s].start_date
  /\ ~(out.msg = "error" /\ out.errors = <<"IntegrityError", "valid_end_date">>)

\* a subscription set active again with a new end date counted from a day
\* after its start
C2_Witness ==
  /\ out.msg = "Status updated, asked"
  /\ out.n # None /\ out.n >= 1
  /\ subscriptions[out.id].end_date > subscriptions[out.id].start_date
  /\ subscriptions[out.id].start_date < today

\* the customer's router id is one the subscriptions table takes
RouterFree(customer) ==
  /\ customers[customer].router_id >= 1000000000
  /\ \A s \in DOMAIN subscriptions :
       subscriptions[s].router_id # customers[customer].router_id

ExtendsAfterCreate ==
  /\ out.op = "create_subscription" /\ out.msg = "created"
  /\ out'.op = "extend_subscription" /\ out'.msg = "Extended"
  /\ out'.id = out.id

\* C4, as stated: for every start date D and all N, M >= 1, creating with
\* duration N and then extending by M months gives the end date of creating
\* on D with duration N + M.
C4_Additive ==
  [][ExtendsAfterCreate
       => subscriptions'[out.id].end_date =
            CalendarMonthsAfter(subscriptions[out.id].start_date, out.n + out'.n)]_vars

\* C4, amended: the same, for the start dates D and durations N whose end
\* date D + N months still has D's day of the month (every D up to the 28th).
C4_AdditiveWhenDayKept ==
  [][(/\ ExtendsAfterCreate
      /\ DayOf(subscriptions[out.id].end_date) = DayOf(subscriptions[out.id].start_date))
       => subscriptions'[out.id].end_date =
            CalendarMonthsAfter(subscriptions[out.id].start_date, out.n + out'.n)]_vars

\* a subscription of 31 December, extended by one month to the last day of
\* February
C4_Witness ==
  /\ out.op = "extend_subscription" /\ out.msg = "Extended" /\ out.n = 1
  /\ subscriptions[out.id].start_date = 20231231
  /\ subscriptions[out.id].end_date = 20240229

\* C5: extend with N >= 1 on a subscription that has an end date sets the
\* end date to the previous one plus N calendar months and leaves its status,
\* start date, customer, plan and last_reminder_sent, and every other row,
\* unchanged.
C5_ExtendAddsMonths ==
  [][out'.op = "extend_subscription" =>
     \A id \in DOMAIN subscriptions, n \in 1..MaxExtend :
       (/\ subscriptions[id].end_date # None
        /\ update_subscription_extend(str(id), str(n)))
          => /\ subscriptions' =
                  [subscriptions EXCEPT
                     ![id].end_date = CalendarMonthsAfter(@, n)]
             /\ customers' = customers /\ plans' = plans]_vars

\* created 2024-01-15 with duration 1, later extended by 2: ends 2024-04-15
C5_Witness ==
  /\ out.op = "extend_subscription" /\ out.msg = "Extended" /\ out.n = 2
  /\ subscriptions[out.id].start_date = 20240115
  /\ subscriptions[out.id].end_date = 20240415

\* C6: extend is rejected, and the whole store left as it was, when the
\* subscription has no end date or the months typed are not a whole number
\* of at least 1.
C6_ExtendRejected ==
  [][out'.op = "extend_subscription" =>
     \A id \in DOMAIN subscriptions, m \in MonthInputs(MaxExtend) :
       (/\ subscriptions[id].end_date = None \/ ~IsNumber(m, 1)
        /\ update_subscription_extend(str(id), m))
          => /\ store' = store
             /\ out'.msg \in {"Cannot extend", "Must extend by at least 1 month"}]_vars

\* the subscription without an end date was not extended
C6_Witness ==
  /\ out.op = "extend_subscription" /\ out.msg = "Cannot extend"
  /\ subscriptions[out.id].end_date = None

\* C7: extending a suspended or terminated subscription does not change its
\* end date.
C7_ExtendOnlyWhileActive ==
  [][out'.op = "extend_subscription" =>
     \A id \in DOMAIN subscriptions, n \in 1..MaxExtend :
       (/\ subscriptions[id].status \in {"suspended", "terminated"}
        /\ update_subscription_extend(str(id), str(n)))
          => subscriptions'[id].end_date = subscriptions[id].end_date]_vars

\* C8: a confirmed cancel sets the status to terminated and removes no row:
\* the rows are the same before and after but for that status, so that
\* cancelling a terminated subscription changes nothing.
C8_CancelTerminates ==
  [][out'.op = "delete_subscription" =>
     \A id \in DOMAIN subscriptions :
       delete_subscription(str(id), "y")
          => /\ DOMAIN subscriptions' = DOMAIN subscriptions
             /\ subscriptions' = [subscriptions EXCEPT ![id].status = "terminated"]
             /\ subscriptions[id].status = "terminated" => store' = store
             /\ customers' = customers /\ plans' = plans]_vars

\* a cancelled subscription, still stored
C8_Witness ==
  /\ out.op = "delete_subscription" /\ out.msg = "cancelled"
  /\ out.id \in DOMAIN subscriptions
  /\ subscriptions[out.id].status = "terminated"
  /\ subscriptions[out.id].end_date # None

\* C9: setting active a subscription whose end date is before today asks for
\* an extension k; with k = 0 the status becomes active and the end date
\* stays, before today; with k >= 1 the status becomes active and the new
\* end date is today or later.
C9_Reactivate ==
  [][out'.op = "update_subscription" =>
     \A id \in DOMAIN subscriptions, k \in 0..MaxExtend :
       (/\ subscriptions[id].end_date # None
        /\ subscriptions[id].end_date < today
        /\ update_subscription_status(str(id), "1", str(k)))
          => /\ out'.msg = "Status updated, asked"
             /\ subscriptions'[id].status = "active"
             /\ k = 0 =>
                  subscriptions'[id].end_date = subscriptions[id].end_date
             /\ k >= 1 => subscriptions'[id].end_date >= today]_vars

\* a terminated or suspended subscription set active with k = 0: active, and
\* its end date in the past
C9_Witness ==
  /\ out.msg = "Status updated, asked" /\ out.n = 0
  /\ subscriptions[out.id].status = "active"
  /\ subscriptions[out.id].end_date < today

\* the subscriptions the sweep is to flag: active, ending today or within the
\* 7 days after it, no reminder today or later, and an owner with an email
Due(s) ==
  /\ subscriptions[s].status = "active"
  /\ subscriptions[s].end_date # None
  /\ today <= subscriptions[s].end_date
  /\ subscriptions[s].end_date <= timedelta_days(today, 7)
  /\ \/ subscriptions[s].last_reminder_sent = None
     \/ subscriptions[s].last_reminder_sent < today
  /\ subscriptions[s].customer_id \in DOMAIN customers
  /\ customers[subscriptions[s].customer_id].email # <<>>

\* C10: the expiring sweep sets last_reminder_sent = today on exactly the
\* subscriptions that are due, and changes nothing else.
C10_SweepFlagsDue ==
  [][(out'.op = "check_expiring" /\ check_expiring_subscriptions)
       => /\ subscriptions' =
               [s \in DOMAIN subscriptions |->
                  IF Due(s)
                  THEN [subscriptions[s] EXCEPT !.last_reminder_sent = today]
                  ELSE subscriptions[s]]
          /\ customers' = customers /\ plans' = plans
          /\ sqlite_sequence' = sqlite_sequence]_vars

\* a sweep that flagged a subscription ending on the 7th day from today, and
\* passed over one that is not due
C10_Witness ==
  /\ out.op = "check_expiring" /\ out.msg = "Reminder flags updated"
  /\ \E s, t \in DOMAIN subscriptions :
       /\ subscriptions[s].last_reminder_sent = today
       /\ subscriptions[s].end_date = timedelta_days(today, 7)
       /\ subscriptions[t].end_date # None
       /\ subscriptions[t].last_reminder_sent # today

\* the reminder of s was flagged within the window of its present end date:
\* on one of the 7 days before the end date, or on the end date
FlaggedInWindow(s) ==
  /\ subscriptions[s].last_reminder_sent # None
  /\ subscriptions[s].end_date # None
  /\ subscriptions[s].last_reminder_sent <= subscriptions[s].end_date
  /\ subscriptions[s].end_date <= timedelta_days(subscriptions[s].last_reminder_sent, 7)

\* C11: once the sweep has flagged a subscription within the window of its
\* end date, no later sweep, on the same day or on a later day of that
\* window, flags it again.
C11_FlaggedOncePerWindow ==
  [][(out'.op = "check_expiring" /\ check_expiring_subscriptions)
       => \A s \in DOMAIN subscriptions :
            FlaggedInWindow(s)
              => subscriptions'[s].last_reminder_sent =
                   subscriptions[s].last_reminder_sent]_vars

\* C12: in every reachable store, list_subscriptions with filter 'active'
\* returns exactly the subscriptions with status active and no end date or an
\* end date >= today, so never one that ended before today or is not active;
\* with filter 'expired' exactly those with status active and an end date
\* before today.
C12_ListFilters ==
  /\ listed("active") =
       {s \in DOMAIN subscriptions :
          /\ subscriptions[s].status = "active"
          /\ subscriptions[s].end_date = None \/ subscriptions[s].end_date >= today}
  /\ \A s \in listed("active") :
       /\ subscriptions[s].status = "active"
       /\ ~(subscriptions[s].end_date # None /\ subscriptions[s].end_date < today)
  /\ \A s \in DOMAIN subscriptions :
       s \in listed("active") <=> is_active(subscriptions[s])
  /\ listed("expired") =
       {s \in DOMAIN subscriptions :
          /\ subscriptions[s].status = "active"
          /\ subscriptions[s].end_date # None
          /\ subscriptions[s].end_date < today}

\* the 'active' list printed while one active subscription has no end date
\* and another ended before today
C12_Witness ==
  /\ out.op = "list_subscriptions" /\ out.msg = "active" /\ out.n = 1
  /\ \E s, t \in DOMAIN subscriptions :
       /\ subscriptions[s].status = "active"
       /\ subscriptions[s].end_date = None
       /\ subscriptions[t].status = "active"
       /\ subscriptions[t].end_date # None
       /\ subscriptions[t].end_date < today

PlanSubscriptions(p) ==
  {s \in DOMAIN subscriptions : subscriptions[s].plan_id = p}

\* C13: delete_plan on a plan that has at least one subscription is refused and
\* leaves the plan and its subscriptions as they were; a confirmed delete_plan
\* on a plan with no subscriptions removes the plan.
C13_DeletePlan ==
  [][out'.op = "delete_plan"
       => \A p \in DOMAIN plans :
            /\ (delete_plan(str(p), "n") \/ delete_plan(str(p), "y"))
                 /\ PlanSubscriptions(p) # {}
                 => /\ out'.msg = "Cannot delete"
                    /\ plans' = plans
                    /\ subscriptions' = subscriptions
            /\ delete_plan(str(p), "y") /\ PlanSubscriptions(p) = {}
                 => /\ out'.msg = "deleted"
                    /\ p \notin DOMAIN plans']_vars

CustomerSubscriptions(c) ==
  {s \in DOMAIN subscriptions : subscriptions[s].customer_id = c}

\* C14: every stored subscription names a stored customer and a stored plan,
\* and a confirmed delete_customer removes the customer together with every
\* subscription of that customer, and no other row.
C14_ReferencesExist ==
  /\ [](\A s \in DOMAIN subscriptions :
          /\ subscriptions[s].customer_id \in DOMAIN customers
          /\ subscriptions[s].plan_id \in DOMAIN plans)
  /\ [][out'.op = "delete_customer" /\ out'.msg = "deleted"
          => /\ out'.id \in DOMAIN customers
             /\ DOMAIN customers' = DOMAIN customers \ {out'.id}
             /\ DOMAIN subscriptions' =
                  DOMAIN subscriptions \ CustomerSubscriptions(out'.id)
             /\ \A s \in DOMAIN subscriptions' :
                  subscriptions'[s] = subscriptions[s]]_vars

\* a customer that had a subscription has been deleted, and the subscription
\* went with it
C14_Witness ==
  /\ out.op = "delete_customer" /\ out.msg = "deleted"
  /\ sqlite_sequence.subscriptions > 0
  /\ sqlite_sequence.plans < 3
  /\ DOMAIN subscriptions = {}
  /\ DOMAIN customers # {}

HardFailures ==
  {"InvalidEmailError", "InvalidPhoneError", "InvalidSpeedError",
   "InvalidSubscriptionDateError"}

\* C16: when a create or an update ends in one of the hard failures (invalid
\* email, phone, speed or start date), the store after it is the store before
\* it, whatever was assigned to the entity before the field that failed.
C16_HardFailureRollsBack ==
  [][out'.msg = "error" /\ out'.errors[1] \in HardFailures
       => UNCHANGED store]_vars

\* an update that assigned a new name and a new email before the phone was
\* refused: the customer keeps the name and email it had
C16_Witness ==
  /\ out.op = "update_customer"
  /\ out.errors = <<"InvalidPhoneError">>
  /\ out.id \in DOMAIN customers
  /\ customers[out.id].name # <<"A", "l">>
  /\ customers[out.id].email # <<"n", "@", "z", ".", "i", "o">>

Chars(text) == {text[i] : i \in DOMAIN text}

\* the errors that apply to the fields of a customer, a plan, a subscription
CustomerErrors(name, email, ten_digits) ==
  (IF name = <<>> THEN {"Name is required"} ELSE {})
  \cup (IF "@" \notin Chars(email) THEN {"Valid email is required"} ELSE {})
  \cup (IF ~ten_digits THEN {"Router ID must be 10 digits"} ELSE {})

PlanErrors(name, speed, price) ==
  (IF name = <<>> THEN {"Plan name is required"} ELSE {})
  \cup (IF speed = <<>> THEN {"Speed description is required"} ELSE {})
  \cup (IF ~IsNumber(price, 0) THEN {"Invalid price format"} ELSE {})
  \cup (IF IsNumber(price, 0) /\ ~IsNumber(price, 2000)
        THEN {"Price must be between KES 2000-100000"} ELSE {})
  \cup (IF IsNumber(price, 100001)
        THEN {"Price must be between KES 2000-100000"} ELSE {})

SubscriptionErrors(customer_id, plan_id, duration) ==
  (IF ~IsNumber(customer_id, 0) THEN {"Customer ID must be a number"} ELSE {})
  \cup (IF ~IsNumber(plan_id, 0) THEN {"Plan ID must be a number"} ELSE {})
  \cup (IF ~IsNumber(duration, 1)
        THEN {"Duration must be at least 1 month"} ELSE {})

\* the handler stopped at its validator and printed each of these errors once
Reported(o, applicable) ==
  applicable # {}
    => /\ o.msg = "validation"
       /\ Chars(o.errors) = applicable
       /\ Len(o.errors) = Cardinality(applicable)

Kept(typed, stored) == IF typed = <<>> THEN stored ELSE typed

\* C17: the validators of customer, plan and subscription input report every
\* error that applies, all in one list, and a create or update that printed
\* such a list has changed nothing in the store.
C17_AllErrorsNoChange ==
  [][/\ out'.msg = "validation" => UNCHANGED store
     /\ out'.op = "create_customer"
          => \A f \in CustomerForms :
               create_customer(f)
                 => Reported(out', CustomerErrors(f.name, f.email,
                                     IsNumber(f.router_id, 0) /\ Len(f.router_id) = 10))
     /\ out'.op = "update_customer"
          => \A c \in DOMAIN customers, f \in CustomerEdits :
               update_customer(str(c), f)
                 => Reported(out', CustomerErrors(Kept(f.name, customers[c].name),
                                     Kept(f.email, customers[c].email),
                                     /\ customers[c].router_id >= 1000000000
                                     /\ customers[c].router_id \div 10 <= 999999999))
     /\ out'.op = "create_plan"
          => \A f \in PlanForms \cup {FormNoPlan} :
               create_plan(f) => Reported(out', PlanErrors(f.name, f.speed, f.price))
     /\ out'.op = "update_plan"
          => \A p \in DOMAIN plans, f \in PlanEdits :
               update_plan(str(p), f)
                 => Reported(out', PlanErrors(Kept(f.name, plans[p].name),
                                              Kept(f.speed, plans[p].speed),
                                              Kept(f.price, <<"2", "0", "0", "0">>)))
     /\ out'.op = "create_subscription" /\ customers # <<>> /\ plans # <<>>
          => \A c \in {<<"1">>, <<"x">>}, p \in {<<"1">>, <<"x">>},
                d \in {<<"1">>, <<"0">>} :
               create_subscription(c, p, d)
                 => Reported(out', SubscriptionErrors(c, p, d))]_vars

\* a customer form with all three errors has been refused while a customer
\* was stored
C17_Witness ==
  /\ out.op = "create_customer"
  /\ out.errors = <<"Name is required", "Valid email is required",
                    "Router ID must be 10 digits">>
  /\ customers # <<>>

\* C18: create_plan with name "x", speed "bad" and price 500 is refused and
\* reports a speed-format error together with the price-range error, and
\* create_plan with name "basic", speed "10Mbps" and price 2500 passes the
\* validators and, when no plan has that name yet, is stored.
C18_SpeedAndPriceReported ==
  [][out'.op = "create_plan"
       => /\ create_plan(FormX)
               => /\ out'.msg \in {"validation", "error"}
                  /\ UNCHANGED store
                  /\ "Price must be between KES 2000-100000" \in Chars(out'.errors)
                  /\ \E e \in Chars(out'.errors) :
                       e \in {"InvalidSpeedError", "Speed description is required"}
          /\ create_plan(FormBasic)
               => /\ out'.msg # "validation"
                  /\ out'.errors \in {<<>>, <<"IntegrityError">>}
                  /\ (\A p \in DOMAIN plans : plans[p].name # Title(FormBasic.name))
                       => /\ out'.msg = "created"
                          /\ plans'[out'.id].price = 2500]_vars

\* the digits and "+" of a text, in order
Dialled(text) == SelectSeq(text, LAMBDA c : c \in Digits \cup {"+"})

AllDigits(text) == \A i \in DOMAIN text : text[i] \in Digits

StartsWith(text, prefix) ==
  Len(text) >= Len(prefix) /\ SubSeq(text, 1, Len(prefix)) = prefix

Plus2547 == <<"+", "2", "5", "4", "7">>

\* 07 and eight more digits, the first of them not 3, 5 or 6
IsLocalMobile(text) ==
  /\ Len(text) = 10 /\ AllDigits(text)
  /\ StartsWith(text, <<"0", "7">>)
  /\ text[3] \notin {"3", "5", "6"}

\* +2547 and eight more digits, the first of them not 3, 5 or 6
IsInternationalMobile(text) ==
  /\ Len(text) = 13 /\ AllDigits(Tail(text))
  /\ StartsWith(text, Plus2547)
  /\ text[6] \notin {"3", "5", "6"}

\* C19 as stated: every 10-digit string with a leading zero is returned as a
\* string of 13 characters that starts with +2547, and every input of any
\* other shape is refused with InvalidPhoneError.
C19_LeadingZeroNormalized ==
  out.op = "validate_phone"
    => IF Len(out.errors) = 10 /\ AllDigits(out.errors) /\ out.errors[1] = "0"
       THEN /\ out.msg = "ok"
            /\ Len(out.id) = 13
            /\ StartsWith(out.id, Plus2547)
       ELSE out.msg = "InvalidPhoneError"

\* C19, amended: with everything but digits and "+" dropped, a phone of the
\* form 07 and eight digits (the first of them not 3, 5 or 6) is returned as
\* +254 and its last nine digits, 13 characters that start with +2547; one of
\* the form +2547 and eight such digits is returned as it is; an empty phone
\* is stored as no phone; every other phone, the other 10-digit strings with
\* a leading zero among them, is refused with InvalidPhoneError.
C19_MobileNormalized ==
  out.op = "validate_phone"
    => LET phone == out.errors
           cleaned == Dialled(phone)
       IN CASE phone = <<>> -> out.msg = "ok" /\ out.id = <<>>
            [] phone # <<>> /\ IsLocalMobile(cleaned) ->
                 /\ out.msg = "ok"
                 /\ out.id = <<"+", "2", "5", "4">> \o Tail(cleaned)
                 /\ Len(out.id) = 13
                 /\ StartsWith(out.id, Plus2547)
            [] phone # <<>> /\ IsInternationalMobile(cleaned) ->
                 out.msg = "ok" /\ out.id = cleaned
            [] OTHER -> out.msg = "InvalidPhoneError"

\* 0712345678 has been returned as +254712345678
C19_Witness ==
  /\ out.op = "validate_phone"
  /\ out.errors = <<"0", "7", "1">> \o PhoneTail
  /\ out.id = <<"+", "2", "5", "4", "7", "1">> \o PhoneTail

\* the text after the first "@" of an email that has one
DomainPart(email) ==
  LET at == CHOOSE i \in DOMAIN email :
              email[i] = "@" /\ \A j \in 1..(i - 1) : email[j] # "@"
  IN SubSeq(email, at + 1, Len(email))

\* local@domain.tld: one "@", text before it, and after it a domain, a dot
\* and a tld
IsLocalDomainTld(email) ==
  /\ Cardinality({i \in DOMAIN email : email[i] = "@"}) = 1
  /\ email[1] # "@"
  /\ \E dot \in 2..(Len(DomainPart(email)) - 1) : DomainPart(email)[dot] = "."

Capitals ==
  {"A", "B", "C", "D", "E", "F", "G", "H", "I", "J", "K", "L", "M", "N", "O",
   "P", "Q", "R", "S", "T", "U", "V", "W", "X", "Y", "Z"}

\* value is text in lower case without the white space at its ends
IsLoweredAndTrimmed(value, text) ==
  /\ Chars(value) \cap Capitals = {}
  /\ value # <<>> => value[1] # " " /\ value[Len(value)] # " "
  /\ \E before \in 0..Len(text) :
       /\ before + Len(value) <= Len(text)
       /\ \A i \in DOMAIN text :
            IF before < i /\ i <= before + Len(value)
            THEN lower(text[i]) = value[i - before]
            ELSE text[i] = " "

\* C20: Customer.validate_email accepts every string of the shape
\* local@domain.tld and returns it in lower case and without the white space
\* at its ends, JOHN@EXAMPLE.COM as john@example.com, and refuses every string
\* that has no "@" or no dot in the part after the "@".
C20_EmailLoweredOrRefused ==
  out.op = "validate_email"
    => LET email == out.errors
       IN /\ IsLocalDomainTld(email)
               => out.msg = "ok" /\ IsLoweredAndTrimmed(out.id, email)
          /\ email = <<"J", "O", "H", "N", "@", "E", "X", "A", "M", "P", "L", "E",
                       ".", "C", "O", "M">>
               => out.id = <<"j", "o", "h", "n", "@", "e", "x", "a", "m", "p", "l",
                             "e", ".", "c", "o", "m">>
          /\ "@" \notin Chars(email) => out.msg = "InvalidEmailError"
          /\ "@" \in Chars(email) /\ "." \notin Chars(DomainPart(email))
               => out.msg = "InvalidEmailError"

\* an email typed in capitals with white space around it has been returned
\* in lower case and trimmed
C20_Witness ==
  /\ out.op = "validate_email"
  /\ out.errors = <<" ", "J", "o", "@", "X", ".", "C", "o", " ">>
  /\ out.id = <<"j", "o", "@", "x", ".", "c", "o">>

\* C21: when an operation run through execute_with_session fails with an
\* exception, the rollback has been performed by the time the session is
\* closed, and nothing of the failed unit of work is committed.
C21_RollbackBeforeClose ==
  [][/\ out'.op = "get_db" /\ out'.errors # <<>>
          => out.op = "execute_with_session" /\ out.msg = "rollback"
     /\ out'.op \in {"get_db", "execute_with_session"} => UNCHANGED store]_vars

\* term occurs in text, whatever the case of the letters
OccursIn(term, text) ==
  \E i \in 1..(Len(text) - Len(term) + 1) :
    Lower(SubSeq(text, i, i + Len(term) - 1)) = Lower(term)

Matching(term) ==
  {c \in DOMAIN customers :
     \/ OccursIn(term, customers[c].name)
     \/ OccursIn(term, customers[c].email)
     \/ OccursIn(term, str_int(customers[c].router_id))}

\* C22: search_customers with a term that is not empty finds exactly the
\* customers whose name, email or router id contains the term in any case and
\* completes without an exception when there are such customers; when there
\* are none, what it prints while customers are stored is not what it prints
\* on a store without customers.
C22_SearchFindsMatches ==
  [][out'.op = "search_customers"
       => \A term \in SearchTerms \ {<<>>} :
            search_customers(term)
              => /\ Matching(term) # {}
                      => /\ out'.n = Cardinality(Matching(term))
                         /\ out'.errors = <<>>
                 /\ Matching(term) = {} /\ customers # <<>>
                      => out'.msg = "No matching customers found"
                 /\ customers = <<>>
                      => out'.msg # "No matching customers found"]_vars

\* C23: no operation of the Subscription menu (create, status update, extend,
\* cancel, expiring sweep) writes the status "expired", and when the end date
\* of a subscription passes, its stored status stays as it is: the passing of
\* days and the sweep change no status.
C23_ExpiryNotStored ==
  [][/\ \A s \in DOMAIN subscriptions' :
          subscriptions'[s].status = "expired"
            => s \in DOMAIN subscriptions /\ subscriptions[s].status = "expired"
     /\ today' # today \/ out'.op = "check_expiring"
          => /\ DOMAIN subscriptions' = DOMAIN subscriptions
             /\ \A s \in DOMAIN subscriptions :
                  subscriptions'[s].status = subscriptions[s].status]_vars

\* the end date of an active subscription has passed, the sweep has run, and
\* the stored status is still active
C23_Witness ==
  /\ out.op = "check_expiring"
  /\ \E s \in DOMAIN subscriptions :
       /\ subscriptions[s].status = "active"
       /\ subscriptions[s].end_date # None
       /\ subscriptions[s].end_date < today

\* C24: no two stored subscriptions have the same router id; a
\* create_subscription for a customer who already has a subscription, in
\* whatever status, stores nothing; and so no customer owns more than one
\* subscription.
C24_OneSubscriptionPerCustomer ==
  /\ [](\A s, t \in DOMAIN subscriptions :
          s # t => subscriptions[s].router_id # subscriptions[t].router_id)
  /\ [](\A c \in DOMAIN customers : Cardinality(CustomerSubscriptions(c)) <= 1)
  /\ [][out'.op = "create_subscription"
          => \A c \in DOMAIN customers :
               CustomerSubscriptions(c) # {}
                 => \A p \in DOMAIN plans, d \in 1..MaxDuration :
                      create_subscription(str(c), str(p), str(d))
                        => out'.msg = "error" /\ UNCHANGED store]_vars

\* C25: delete_plan refuses a plan that has subscriptions even when all of
\* them are terminated, and leaves the store as it is; once the customers who
\* owned the subscriptions have been deleted, and their subscriptions with
\* them, a confirmed delete_plan removes the plan.
C25_DeletableAfterCustomersDeleted ==
  [][out'.op = "delete_plan"
       => \A p \in DOMAIN plans :
            /\ delete_plan(str(p), "y")
                 /\ PlanSubscriptions(p) # {}
                 /\ (\A s \in PlanSubscriptions(p) :
                       subscriptions[s].status = "terminated")
                 => out'.msg = "Cannot delete" /\ UNCHANGED store
            /\ delete_plan(str(p), "y")
                 /\ sqlite_sequence.subscriptions > 0
                 /\ subscriptions = <<>>
                 => out'.msg = "deleted" /\ p \notin DOMAIN plans']_vars

\* C26: the status update stores the chosen status, active, suspended or
\* terminated, whatever the current status is, so that a terminated
\* subscription can be made active or suspended again; and a terminated
\* subscription that has an end date is extended like any other.
C26_TerminatedNotAbsorbing ==
  [][/\ out'.op = "update_subscription"
          /\ out'.id \in DOMAIN subscriptions
          /\ out'.msg # "Invalid choice"
          => /\ out'.msg \in {"Status updated", "Status updated, asked"}
             /\ out'.errors[1] \in {"active", "suspended", "terminated"}
             /\ subscriptions'[out'.id].status = out'.errors[1]
     /\ out'.op = "extend_subscription"
          /\ out'.id \in DOMAIN subscriptions
          /\ out'.msg # "Must extend by at least 1 month"
          /\ subscriptions[out'.id].status = "terminated"
          /\ subscriptions[out'.id].end_date # None
          => /\ out'.msg = "Extended"
             /\ subscriptions'[out'.id].status = "terminated"
             /\ subscriptions'[out'.id].end_date =
                  CalendarMonthsAfter(subscriptions[out'.id].end_date, out'.n)]_vars

\* a terminated subscription has just been extended
C26_Witness ==
  /\ out.op = "extend_subscription" /\ out.msg = "Extended"
  /\ subscriptions[out.id].status = "terminated"

\* C27: every stored customer has a router id of exactly 10 digits, a number
\* from 1000000000 to 9999999999, and so a create_subscription for a stored
\* customer who has no subscription yet, on a stored plan and for at least one
\* month, is stored.
C27_RouterIdTenDigits ==
  /\ [](\A c \in DOMAIN customers :
          /\ customers[c].router_id >= 1000000000
          /\ customers[c].router_id \div 10 <= 999999999)
  /\ [][out'.op = "create_subscription"
          => \A c \in DOMAIN customers, p \in DOMAIN plans :
               CustomerSubscriptions(c) = {}
                 /\ create_subscription(str(c), str(p), <<"1">>)
                 => /\ out'.msg = "created"
                    /\ subscriptions'[out'.id].router_id = customers[c].router_id]_vars

====
